---- MODULE Spec2Model ----
(***************************************************************************)
(* Document identity + artefact pipeline + MongoDB artefact store of the   *)
(* langchain document processor.                                           *)
(*                                                                         *)
(*   app/storage/file_hasher.py     FileHasher.hash                        *)
(*   app/storage/mongodb.py         MongoDBStoreManager                    *)
(*   app/document_processor.py      DocumentProcessor                      *)
(*   app/routers/process.py         invoke_service_set                     *)
(*   app/routers/feedback.py        process_feedback                       *)
(***************************************************************************)
EXTENDS Integers, Sequences, FiniteSets, TLC

(***************************************************************************)
(* Python values.  None, str, datetime and bson Binary are kept apart by   *)
(* wrapping them in records, so that None is different from every str and  *)
(* from the empty byte string.                                             *)
(***************************************************************************)
None == [py |-> "None"]

PyStr(s) == [str |-> s]

\* datetime.isoformat(): the ISO-8601 text of the instant t
isoformat(t) == [iso |-> t]

\* bson.binary.Binary(document)
Binary(document) == [binary |-> document]

(***************************************************************************)
(* Byte strings.  A byte string is kept run-length encoded, as a sequence  *)
(* of runs [b |-> byte, n |-> count] with n > 0 and no two adjacent runs   *)
(* of the same byte, so that equal byte strings have equal encodings and   *)
(* payloads around the 16 MB ceiling stay small values.                    *)
(***************************************************************************)
Run(b, n) == [b |-> b, n |-> n]

RECURSIVE len(_)
len(s) == IF s = <<>> THEN 0 ELSE Head(s).n + len(Tail(s))

\* s + t
Concat(s, t) ==
    IF s = <<>> THEN t
    ELSE IF t = <<>> THEN s
    ELSE IF s[Len(s)].b = t[1].b
         THEN SubSeq(s, 1, Len(s) - 1)
                \o <<Run(t[1].b, s[Len(s)].n + t[1].n)>> \o Tail(t)
         ELSE s \o t

\* s[:k] for k >= 0
RECURSIVE SliceTo(_, _)
SliceTo(s, k) ==
    IF k <= 0 \/ s = <<>> THEN <<>>
    ELSE IF Head(s).n >= k THEN <<Run(Head(s).b, k)>>
    ELSE <<Head(s)>> \o SliceTo(Tail(s), k - Head(s).n)

\* s[k:] for k >= 0
RECURSIVE SliceFrom(_, _)
SliceFrom(s, k) ==
    IF k <= 0 \/ s = <<>> THEN s
    ELSE IF Head(s).n > k THEN <<Run(Head(s).b, Head(s).n - k)>> \o Tail(s)
    ELSE SliceFrom(Tail(s), k - Head(s).n)

\* s[-k:] for k >= 0; Python reads -0 as 0, so s[-0:] is all of s
SliceLast(s, k) ==
    IF k = 0 THEN s
    ELSE IF k >= len(s) THEN s
    ELSE SliceFrom(s, len(s) - k)

(***************************************************************************)
(* FileHasher                                                              *)
(***************************************************************************)
DEFAULT_FIRST_N_BYTES == 512
DEFAULT_LAST_N_BYTES == 512

\* hashlib.sha256(...).hexdigest(): the digest is kept symbolic and
\* collision free, it names the bytes that were digested
sha256_hexdigest(combined_bytes) == [sha256 |-> combined_bytes]

\* a payload shorter than the last window given an empty last part
hash_EmptyLastPart(first_n_bytes, last_n_bytes, file_bytes) ==
    LET first_part == SliceTo(file_bytes, first_n_bytes)
        last_part  == IF len(file_bytes) >= last_n_bytes
                      THEN SliceLast(file_bytes, last_n_bytes)
                      ELSE <<>>
        combined_bytes == Concat(first_part, last_part)
    IN  sha256_hexdigest(combined_bytes)

hash(first_n_bytes, last_n_bytes, file_bytes) ==
    LET first_part == SliceTo(file_bytes, first_n_bytes)
        last_part  == IF len(file_bytes) >= last_n_bytes
                      THEN SliceLast(file_bytes, last_n_bytes)
                      ELSE file_bytes
        combined_bytes == Concat(first_part, last_part)
    IN  sha256_hexdigest(combined_bytes)

(***************************************************************************)
(* Bounds of the model                                                     *)
(***************************************************************************)
\* handler calls (store, feedback, pipeline runs) issued in one behaviour
MaxCalls == 3
\* instants the server clock runs through
MaxClock == 2
\* store calls in flight on the collection at one time
MaxInFlight == 2
\* the longest payload, byte by byte, given to a FileHasher
MaxLen == 3
\* the widest window, below the default 512, a FileHasher is configured with
MaxWindow == 3

(***************************************************************************)
(* Inputs                                                                  *)
(***************************************************************************)
MAX_DOCUMENT_SIZE_IN_BYTES == 16793598

\* app/services/service_types.py
ServiceTypes == {"summarization", "description", "tagging", "translation"}

\* the service types the modelled requests use
Kinds == {"summarization", "tagging"}

\* uploaded payloads: a b"hello world"-sized one and two around the ceiling.
\* AtCeiling and OverCeiling agree on their first and last 512 bytes, so
\* they are different bytes with the same identity.
Hello       == <<Run(1, 11)>>
AtCeiling   == <<Run(1, MAX_DOCUMENT_SIZE_IN_BYTES)>>
OverCeiling == <<Run(1, MAX_DOCUMENT_SIZE_IN_BYTES + 1)>>
Payloads    == {Hello, AtCeiling, OverCeiling}

\* text the model returns
Contents == {"text-a"}

Users == {"ana"}

\* the (user, feedback, written_feedback, created_at) bodies a client posts
FeedbackForms ==
    [user : Users,
     feedback : {PyStr("good")},
     written_feedback : {None},
     created_at : {None, isoformat(0)}]

VARIABLES
    collection,   \* the MongoDB collection: a set of documents
    files,        \* the temporary files of the uploads: path -> bytes
    now,          \* the server clock at its last reading, datetime.now()
    nextGen,      \* source of the generation ids (AIMessage.id)
    proc,         \* the DocumentProcessor of the request being served
    last,         \* the last finished call: number, operation, arguments,
                  \* outcome, and the collection it started from
    calls         \* the store calls that processes of the application have
                  \* in flight on the collection, each at its position

vars == <<collection, files, now, nextGen, proc, last, calls>>

(***************************************************************************)
(* The collection.  A document is a function from field names to values;  *)
(* the collection has MongoDB's unique index on _id.                       *)
(***************************************************************************)
RAW == "original_document_as_bytes"

DocsOf(coll, _id) == {d \in coll : d["_id"] = _id}

\* collection.find_one({"_id": _id})
find_one(coll, _id) ==
    IF DocsOf(coll, _id) = {} THEN None ELSE CHOOSE d \in DocsOf(coll, _id) : TRUE

\* collection.insert_one(document): a second document with the same _id is
\* rejected with DuplicateKeyError
insert_one(coll, document) ==
    IF DocsOf(coll, document["_id"]) # {}
    THEN [collection |-> coll, status |-> "DuplicateKeyError"]
    ELSE [collection |-> coll \cup {document}, status |-> "ok"]

\* the value that was there kept inside the new one, as its previous version
update_one_set_KeepPrevious(coll, _id, field, value) ==
    IF DocsOf(coll, _id) = {}
    THEN [collection |-> coll, matched_count |-> 0]
    ELSE LET d == find_one(coll, _id)
             versioned == IF field \in DOMAIN d
                          THEN ("previous" :> d[field]) @@ value
                          ELSE value
         IN  [collection |-> (coll \ {d}) \cup {(field :> versioned) @@ d},
              matched_count |-> 1]

\* a replace_one in place of the $set: the other fields are dropped
update_one_set_Replace(coll, _id, field, value) ==
    IF DocsOf(coll, _id) = {}
    THEN [collection |-> coll, matched_count |-> 0]
    ELSE LET d == find_one(coll, _id)
         IN  [collection |-> (coll \ {d}) \cup {("_id" :> _id) @@ (field :> value)},
              matched_count |-> 1]

\* a $set of the artefact's own fields that leaves a stored feedback list
update_one_set_KeepFeedback(coll, _id, field, value) ==
    IF DocsOf(coll, _id) = {}
    THEN [collection |-> coll, matched_count |-> 0]
    ELSE LET d == find_one(coll, _id)
             kept == IF field \in DOMAIN d /\ "feedback" \in DOMAIN d[field]
                     THEN [value EXCEPT !["feedback"] = d[field]["feedback"]]
                     ELSE value
         IN  [collection |-> (coll \ {d}) \cup {(field :> kept) @@ d},
              matched_count |-> 1]

\* collection.update_one({"_id": _id}, {"$set": {field: value}})
update_one_set(coll, _id, field, value) ==
    IF DocsOf(coll, _id) = {}
    THEN [collection |-> coll, matched_count |-> 0]
    ELSE LET d == find_one(coll, _id)
         IN  [collection |-> (coll \ {d}) \cup {(field :> value) @@ d},
              matched_count |-> 1]

\* the entry put in front of the list
PushFeedback_Prepend(sub, entry) ==
    IF "feedback" \in DOMAIN sub
    THEN [sub EXCEPT !["feedback"] = <<entry>> \o @]
    ELSE ("feedback" :> <<entry>>) @@ sub

\* the push with {"$each": [entry], "$slice": -1}: the last entry alone
PushFeedback_Slice(sub, entry) == ("feedback" :> <<entry>>) @@ sub

\* the embedded document after {"$push": {"<field>.feedback": entry}}
PushFeedback(sub, entry) ==
    IF "feedback" \in DOMAIN sub
    THEN [sub EXCEPT !["feedback"] = Append(@, entry)]
    ELSE ("feedback" :> <<entry>>) @@ sub

\* one feedback list for the record, kept in its first artefact, whatever
\* the field named
update_one_push_SharedList(coll, _id, field, entry) ==
    IF DocsOf(coll, _id) = {}
    THEN [collection |-> coll, matched_count |-> 0]
    ELSE LET d == find_one(coll, _id)
             shared == IF DOMAIN d \ {"_id", "original_document_as_bytes"} = {}
                       THEN field
                       ELSE CHOOSE k \in DOMAIN d \ {"_id", "original_document_as_bytes"} : TRUE
             sub == IF shared \in DOMAIN d THEN PushFeedback(d[shared], entry)
                    ELSE [feedback |-> <<entry>>]
         IN  [collection |-> (coll \ {d}) \cup {(shared :> sub) @@ d},
              matched_count |-> 1]

\* the update run with upsert=True: a missing document is created
update_one_push_Upsert(coll, _id, field, entry) ==
    IF DocsOf(coll, _id) = {}
    THEN [collection |->
              coll \cup {("_id" :> _id) @@ (field :> [feedback |-> <<entry>>])},
          matched_count |-> 0]
    ELSE LET d == find_one(coll, _id)
             sub == IF field \in DOMAIN d THEN PushFeedback(d[field], entry)
                    ELSE [feedback |-> <<entry>>]
         IN  [collection |-> (coll \ {d}) \cup {(field :> sub) @@ d},
              matched_count |-> 1]

\* collection.update_one({"_id": _id}, {"$push": {f"{field}.feedback": entry}})
update_one_push(coll, _id, field, entry) ==
    IF DocsOf(coll, _id) = {}
    THEN [collection |-> coll, matched_count |-> 0]
    ELSE LET d == find_one(coll, _id)
             sub == IF field \in DOMAIN d THEN PushFeedback(d[field], entry)
                    ELSE [feedback |-> <<entry>>]
         IN  [collection |-> (coll \ {d}) \cup {(field :> sub) @@ d},
              matched_count |-> 1]

(***************************************************************************)
(* MongoDBStoreManager                                                     *)
(***************************************************************************)
\* the limit taken as exclusive
document_can_be_stored_Exclusive(document) ==
    len(document) < MAX_DOCUMENT_SIZE_IN_BYTES

document_can_be_stored(document) == len(document) <= MAX_DOCUMENT_SIZE_IN_BYTES

\* line 174: the bytes are embedded only under the size limit
document_to_store(document) ==
    IF document_can_be_stored(document) THEN Binary(document) ELSE None

\* line 178
base_document(_id, document) ==
    ("_id" :> _id) @@ (RAW :> document_to_store(document))

\* the base document inserted without looking at what was found
needs_base_document_Always(existing_document) == TRUE

\* line 177: `if not existing_document`
needs_base_document(existing_document) == existing_document = None

\* the artefact written whatever the record holds
writes_artefact_Always(existing_document, artefact, overwrite_existing) == TRUE

\* line 182: `if artefact not in existing_document or overwrite_existing`
writes_artefact(existing_document, artefact, overwrite_existing) ==
    artefact \notin DOMAIN existing_document \/ overwrite_existing

\* the bytes of the call embedded again on every call
store_service_output_Reembed(coll, _id, artefact, data, document, overwrite_existing) ==
    LET found == find_one(coll, _id)
        inserted == IF needs_base_document(found)
                    THEN insert_one(coll, base_document(_id, document))
                    ELSE [collection |->
                              update_one_set(coll, _id, RAW,
                                             document_to_store(document)).collection,
                          status |-> "ok"]
        existing_document == IF needs_base_document(found)
                             THEN base_document(_id, document) ELSE found
    IN  IF inserted.status # "ok"
        THEN [collection |-> inserted.collection, status |-> inserted.status,
              value |-> None]
        ELSE IF writes_artefact(existing_document, artefact, overwrite_existing)
        THEN [collection |->
                  update_one_set(inserted.collection, _id, artefact, data).collection,
              status |-> "ok", value |-> _id]
        ELSE [collection |-> inserted.collection, status |-> "ok", value |-> _id]

store_service_output(coll, _id, artefact, data, document, overwrite_existing) ==
    LET found == find_one(coll, _id)
        inserted == IF needs_base_document(found)
                    THEN insert_one(coll, base_document(_id, document))
                    ELSE [collection |-> coll, status |-> "ok"]
        existing_document == IF needs_base_document(found)
                             THEN base_document(_id, document) ELSE found
    IN  IF inserted.status # "ok"
        THEN [collection |-> inserted.collection, status |-> inserted.status,
              value |-> None]
        ELSE IF writes_artefact(existing_document, artefact, overwrite_existing)
        THEN [collection |->
                  update_one_set(inserted.collection, _id, artefact, data).collection,
              status |-> "ok", value |-> _id]
        ELSE [collection |-> inserted.collection, status |-> "ok", value |-> _id]

_set_creation_date(feedback, clock) ==
    [feedback EXCEPT !.created_at = isoformat(clock)]

store_service_output_feedback(coll, _id, service_type, form, clock) ==
    LET feedback_as_dict == _set_creation_date(form, clock)
        insertion_result == update_one_push(coll, _id, service_type, feedback_as_dict)
    IN  IF insertion_result.matched_count = 0
        THEN [collection |-> insertion_result.collection,
              status |-> "ValueError", value |-> None]
        ELSE [collection |-> insertion_result.collection,
              status |-> "ok", value |-> _id]

\* the document returned as find_one gave it, the bytes never taken out
get_document_by_id_NoStrip(coll, _id, exclude_byte_fields) ==
    LET document == find_one(coll, _id)
    IN  IF exclude_byte_fields /\ document = None
        THEN [status |-> "TypeError", value |-> None]
        ELSE [status |-> "ok", value |-> document]

\* get_document_by_id: `in` on the None of a missing document is a TypeError
get_document_by_id(coll, _id, exclude_byte_fields) ==
    LET document == find_one(coll, _id)
    IN  IF ~exclude_byte_fields THEN [status |-> "ok", value |-> document]
        ELSE IF document = None THEN [status |-> "TypeError", value |-> None]
        ELSE IF RAW \in DOMAIN document
        THEN [status |-> "ok",
              value |-> [f \in DOMAIN document \ {RAW} |-> document[f]]]
        ELSE [status |-> "ok", value |-> document]

(***************************************************************************)
(* Services and DocumentProcessor                                          *)
(***************************************************************************)
\* MinimalService.get_metadata: the input file and the service's own fields
get_metadata(service_type, file) ==
    [input_file |-> file, service_type |-> service_type]

\* the artefact_data dictionary of _execute_service_on_content
artefact_data(service_type, file, generated) ==
    ("_id" :> generated.id)
    @@ [metadata |-> get_metadata(service_type, file),
        content  |-> generated.content,
        feedback |-> <<>>]

\* the store's default, overwrite_existing=False, left in place
processor_overwrite_existing_Default == FALSE

\* the overwrite_existing argument of the processor's store call
processor_overwrite_existing == TRUE

\* DocumentProcessor.file_as_bytes: reads the file again at every use
file_as_bytes(fs, file_path) == fs[file_path]

\* the name of the file hashed in front of its bytes
file_hash_WithPath(fs, file_path) ==
    hash(DEFAULT_FIRST_N_BYTES, DEFAULT_LAST_N_BYTES,
         Concat(<<Run(2 + file_path.tmp, 1)>>, file_as_bytes(fs, file_path)))

\* DocumentProcessor.file_hash: FileHasher() with its default windows
file_hash(fs, file_path) ==
    hash(DEFAULT_FIRST_N_BYTES, DEFAULT_LAST_N_BYTES, file_as_bytes(fs, file_path))

\* loader.load(): the text extracted from the file
load(fs, file_path) == [text_of |-> fs[file_path]]

Ids == {hash(DEFAULT_FIRST_N_BYTES, DEFAULT_LAST_N_BYTES, p) : p \in Payloads}

\* the service lists of the modelled requests: no service, one, or two
ServiceLists ==
    {<<>>} \cup {<<k>> : k \in Kinds}
           \cup {<<"summarization", "tagging">>}

Idle == [pc |-> "idle"]

Range(seq) == {seq[i] : i \in DOMAIN seq}

\* a Python list given as an argument that may also be None
PyList(seq) == [list |-> seq]

\* DocumentProcessor.__init__: `services or []`, and the bind of line 54
\* that takes self.file_hash, one read of the file and one hash of it.
\* reads, hashes and loads count the uses of file_as_bytes, of hasher.hash
\* and of loader.load() by this processor.
DocumentProcessor(file_path, services) ==
    [pc |-> "load", file_path |-> file_path,
     services |-> IF services = None THEN <<>> ELSE services.list,
     i |-> 1, content |-> None, stored |-> <<>>, reads |-> 1, invoked |-> 0,
     hashes |-> 1, loads |-> 0]

\* DocumentProcessorBuilder.build: ValueError without a loader or without
\* services, raised before the processor is constructed
build(loader, services) ==
    IF loader = None \/ services = <<>>
    THEN [status |-> "ValueError", reads |-> 0]
    ELSE [status |-> "ok", reads |-> 1,
          processor |-> DocumentProcessor(loader.file_path, PyList(services))]

Init ==
    /\ collection = {}
    /\ files = <<>>
    /\ now = 1
    /\ nextGen = 1
    /\ proc = Idle
    /\ last = [n |-> 0, op |-> "none"]
    /\ calls = [c \in 1..MaxInFlight |-> Idle]

\* a caller of the store: MongoDBStoreManager.store_service_output, with the
\* identity of the document it passes
StoreServiceOutput(artefact, text, document, overwrite_existing) ==
    /\ proc = Idle
    /\ last.n < MaxCalls
    /\ LET _id  == hash(DEFAULT_FIRST_N_BYTES, DEFAULT_LAST_N_BYTES, document)
           data == artefact_data(artefact, None, [id |-> nextGen, content |-> text])
           out  == store_service_output(collection, _id, artefact, data, document,
                                        overwrite_existing)
       IN  /\ collection' = out.collection
           /\ last' = [n |-> last.n + 1, op |-> "store_service_output",
                       id |-> _id, artefact |-> artefact, data |-> data,
                       document |-> document,
                       overwrite_existing |-> overwrite_existing,
                       status |-> out.status, value |-> out.value,
                       before |-> collection]
    /\ nextGen' = nextGen + 1
    /\ UNCHANGED <<calls, files, now, proc>>

\* POST /feedback: process_feedback -> store_service_output_feedback.
\* The clock reads t, no earlier than its last reading.
ProcessFeedback(_id, service_type, form, t) ==
    /\ proc = Idle
    /\ last.n < MaxCalls
    /\ t >= now
    /\ now' = t
    /\ LET out == store_service_output_feedback(collection, _id, service_type,
                                                form, t)
       IN  /\ collection' = out.collection
           /\ last' = [n |-> last.n + 1, op |-> "store_service_output_feedback",
                       id |-> _id, service_type |-> service_type, form |-> form,
                       status |-> out.status, value |-> out.value,
                       before |-> collection]
    /\ UNCHANGED <<calls, files, nextGen, proc>>

\* invoke_service_set up to processor.execute_services(): the upload is
\* written to a fresh temporary file and the builder builds the processor
InvokeServiceSet(contents, services) ==
    /\ proc = Idle
    /\ last.n < MaxCalls
    /\ LET file_path == [tmp |-> last.n + 1]
           built == build([file_path |-> file_path], services)
       IN  /\ files' = (file_path :> contents) @@ files
           /\ IF built.status # "ok"
              THEN /\ proc' = proc
                   /\ last' = [n |-> last.n + 1, op |-> "build",
                               status |-> built.status, value |-> None,
                               services |-> services, reads |-> built.reads,
                               before |-> collection]
              ELSE /\ proc' = [before |-> collection] @@ built.processor
                   /\ last' = last
    /\ UNCHANGED <<calls, collection, now, nextGen>>

\* a caller that constructs the processor itself, without the builder:
\* DocumentProcessor(loader, store_manager, services), services optional
ConstructProcessor(contents, services) ==
    /\ proc = Idle
    /\ last.n < MaxCalls
    /\ LET file_path == [tmp |-> last.n + 1]
       IN  /\ files' = (file_path :> contents) @@ files
           /\ proc' = [before |-> collection]
                         @@ DocumentProcessor(file_path, services)
    /\ UNCHANGED <<calls, collection, now, nextGen, last>>

\* execute_services, line 122: the content is loaded once
ExecuteLoad ==
    /\ proc.pc = "load"
    /\ proc' = [proc EXCEPT !.pc = "service", !.loads = @ + 1,
                            !.content = load(files, proc.file_path)]
    /\ UNCHANGED <<calls, collection, files, now, nextGen, last>>

\* the services taken from the end of the list
next_service_Reversed(p) == p.services[Len(p.services) - p.i + 1]

\* line 124: `for i, service in enumerate(self.services)`
next_service(p) == p.services[p.i]

\* one turn of the loop of execute_services: _execute_service_on_content.
\* Lines 175 and 178 take self.file_hash and self.file_as_bytes: two reads
\* of the file and one hash.
ExecuteServiceOnContent(text) ==
    /\ proc.pc = "service"
    /\ proc.i <= Len(proc.services)
    /\ LET service_type == next_service(proc)
           generated == [id |-> nextGen, content |-> text]
           data == artefact_data(service_type, proc.file_path, generated)
           _id  == file_hash(files, proc.file_path)
           out  == store_service_output(collection, _id, service_type, data,
                                        file_as_bytes(files, proc.file_path),
                                        processor_overwrite_existing)
       IN  /\ collection' = out.collection
           /\ IF out.status = "ok"
              THEN /\ proc' = [proc EXCEPT !.i = @ + 1, !.reads = @ + 2,
                                 !.hashes = @ + 1,
                                 !.invoked = @ + 1,
                                 !.stored = Append(@, [id |-> _id,
                                                       artefact |-> service_type,
                                                       data |-> data,
                                                       overwrite_existing |->
                                                         processor_overwrite_existing])]
                   /\ last' = last
              ELSE /\ proc' = Idle
                   /\ last' = [n |-> last.n + 1, op |-> "execute_services",
                               id |-> _id, status |-> out.status,
                               value |-> None,
                               document |-> file_as_bytes(files, proc.file_path),
                               services |-> proc.services,
                               stored |-> proc.stored,
                               invoked |-> proc.invoked + 1,
                               before |-> proc.before]
    /\ nextGen' = nextGen + 1
    /\ UNCHANGED <<calls, files, now>>

\* the base document of the file inserted before the content is loaded
ExecuteLoadFails_AfterInsert ==
    /\ proc.pc = "load"
    /\ last' = [n |-> last.n + 1, op |-> "execute_services",
                id |-> file_hash(files, proc.file_path),
                status |-> "LoaderError", value |-> None,
                document |-> file_as_bytes(files, proc.file_path),
                services |-> proc.services, stored |-> proc.stored,
                invoked |-> proc.invoked, before |-> proc.before]
    /\ proc' = Idle
    /\ collection' =
          insert_one(collection,
                     base_document(file_hash(files, proc.file_path),
                                   file_as_bytes(files, proc.file_path))).collection
    /\ UNCHANGED <<calls, files, now, nextGen>>

\* execute_services, line 122: loader.load() raises; nothing catches it
ExecuteLoadFails ==
    /\ proc.pc = "load"
    /\ last' = [n |-> last.n + 1, op |-> "execute_services",
                id |-> file_hash(files, proc.file_path),
                status |-> "LoaderError", value |-> None,
                document |-> file_as_bytes(files, proc.file_path),
                services |-> proc.services, stored |-> proc.stored,
                invoked |-> proc.invoked, before |-> proc.before]
    /\ proc' = Idle
    /\ UNCHANGED <<calls, collection, files, now, nextGen>>

\* the writes of the run undone when a service fails
ExecuteServiceFails_Rollback ==
    /\ proc.pc = "service"
    /\ proc.i <= Len(proc.services)
    /\ last' = [n |-> last.n + 1, op |-> "execute_services",
                id |-> file_hash(files, proc.file_path),
                status |-> "GenerationError", value |-> None,
                document |-> file_as_bytes(files, proc.file_path),
                services |-> proc.services, stored |-> proc.stored,
                invoked |-> proc.invoked + 1, failed |-> proc.i,
                before |-> proc.before]
    /\ proc' = Idle
    /\ collection' = proc.before
    /\ UNCHANGED <<calls, files, now, nextGen>>

\* _execute_service_on_content, line 156: service.run raises before the
\* store call of that service; the loop of execute_services is left
ExecuteServiceFails ==
    /\ proc.pc = "service"
    /\ proc.i <= Len(proc.services)
    /\ last' = [n |-> last.n + 1, op |-> "execute_services",
                id |-> file_hash(files, proc.file_path),
                status |-> "GenerationError", value |-> None,
                document |-> file_as_bytes(files, proc.file_path),
                services |-> proc.services, stored |-> proc.stored,
                invoked |-> proc.invoked + 1, failed |-> proc.i,
                before |-> proc.before]
    /\ proc' = Idle
    /\ UNCHANGED <<calls, collection, files, now, nextGen>>

\* the artefacts of this run returned, not the stored document
ExecuteReturn_NewOnly ==
    /\ proc.pc = "service"
    /\ proc.i > Len(proc.services)
    /\ LET _id == file_hash(files, proc.file_path)
           out == get_document_by_id(collection, _id, TRUE)
       IN  last' = [n |-> last.n + 1, op |-> "execute_services",
                    id |-> _id, status |-> out.status,
                    value |-> [f \in {"_id"} \cup Range(proc.services)
                                 |-> out.value[f]],
                    document |-> file_as_bytes(files, proc.file_path),
                    services |-> proc.services, stored |-> proc.stored,
                    invoked |-> proc.invoked, before |-> proc.before]
    /\ proc' = Idle
    /\ UNCHANGED <<calls, collection, files, now, nextGen>>

\* execute_services, line 133: the stored document is returned
ExecuteReturn ==
    /\ proc.pc = "service"
    /\ proc.i > Len(proc.services)
    /\ LET _id == file_hash(files, proc.file_path)
           out == get_document_by_id(collection, _id, TRUE)
       IN  last' = [n |-> last.n + 1, op |-> "execute_services",
                    id |-> _id, status |-> out.status, value |-> out.value,
                    document |-> file_as_bytes(files, proc.file_path),
                    services |-> proc.services, stored |-> proc.stored,
                    invoked |-> proc.invoked, before |-> proc.before,
                    reads |-> proc.reads + 1, hashes |-> proc.hashes + 1,
                    loads |-> proc.loads]
    /\ proc' = Idle
    /\ UNCHANGED <<calls, collection, files, now, nextGen>>

\* a caller of the store: MongoDBStoreManager.get_document_by_id
GetDocumentById(_id, exclude_byte_fields) ==
    /\ proc = Idle
    /\ last.n < MaxCalls
    /\ LET out == get_document_by_id(collection, _id, exclude_byte_fields)
       IN  last' = [n |-> last.n + 1, op |-> "get_document_by_id",
                    id |-> _id, exclude_byte_fields |-> exclude_byte_fields,
                    status |-> out.status, value |-> out.value,
                    before |-> collection]
    /\ UNCHANGED <<calls, collection, files, now, nextGen, proc>>

Next ==
    \/ \E artefact \in Kinds, text \in Contents,
          document \in Payloads, overwrite_existing \in BOOLEAN :
           StoreServiceOutput(artefact, text, document, overwrite_existing)
    \/ \E _id \in Ids, service_type \in Kinds, form \in FeedbackForms,
          t \in 1..MaxClock :
           ProcessFeedback(_id, service_type, form, t)
    \/ \E contents \in Payloads, services \in ServiceLists :
           InvokeServiceSet(contents, services)
    \/ ExecuteLoad
    \/ \E text \in Contents : ExecuteServiceOnContent(text)
    \/ ExecuteReturn

Spec == Init /\ [][Next]_vars

\* the callers of the store alone: writes, feedback and reads
NextStore ==
    \/ \E artefact \in Kinds, text \in Contents,
          document \in Payloads, overwrite_existing \in BOOLEAN :
           StoreServiceOutput(artefact, text, document, overwrite_existing)
    \/ \E _id \in Ids, service_type \in Kinds, form \in FeedbackForms,
          t \in 1..MaxClock :
           ProcessFeedback(_id, service_type, form, t)
    \/ \E _id \in Ids, exclude_byte_fields \in BOOLEAN :
           GetDocumentById(_id, exclude_byte_fields)

SpecStore == Init /\ [][NextStore]_vars

(***************************************************************************)
(* Store calls of several processes of the application on one collection. *)
(* store_service_output and store_service_output_feedback hold no lock    *)
(* and open no transaction: between two operations of one call on the     *)
(* collection, the operations of another call may run.  Each operation on *)
(* the collection is atomic, as MongoDB makes single-document operations. *)
(***************************************************************************)
\* the user posting through the c-th call in flight
ClientUsers == <<"ana", "bob", "eve", "dan">>

\* a call is entered in the first place that has no call in flight
CanBegin(c) ==
    /\ calls[c].pc \in {"idle", "done"}
    /\ \A b \in 1..(c - 1) : calls[b].pc \notin {"idle", "done"}
    /\ last.n < MaxCalls

\* store_service_output is entered (line 174) from
\* _execute_service_on_content: the arguments are bound
BeginStoreServiceOutput(c, artefact, text, document, overwrite_existing) ==
    /\ CanBegin(c)
    /\ LET _id  == hash(DEFAULT_FIRST_N_BYTES, DEFAULT_LAST_N_BYTES, document)
           data == artefact_data(artefact, None, [id |-> nextGen, content |-> text])
       IN  calls' = [calls EXCEPT ![c] =
                       [op |-> "store_service_output", pc |-> "find_one",
                        id |-> _id, artefact |-> artefact, data |-> data,
                        document |-> document,
                        overwrite_existing |-> overwrite_existing,
                        existing_document |-> None, status |-> "running",
                        found_at_begin |-> find_one(collection, _id)]]
    /\ nextGen' = nextGen + 1
    /\ last' = [last EXCEPT !.n = @ + 1]
    /\ UNCHANGED <<collection, files, now, proc>>

\* line 175: existing_document = collection.find_one({"_id": _id})
StoreFindOne(c) ==
    /\ calls[c].pc = "find_one"
    /\ LET found == find_one(collection, calls[c].id)
       IN  calls' = [calls EXCEPT
                       ![c].existing_document = found,
                       ![c].pc = IF needs_base_document(found)
                                 THEN "insert_one" ELSE "update_one"]
    /\ UNCHANGED <<collection, files, now, nextGen, proc, last>>

\* lines 177-180: the base document is inserted; DuplicateKeyError ends the
\* call when another call has inserted one since the find_one
StoreInsertOne(c) ==
    /\ calls[c].pc = "insert_one"
    /\ LET base == base_document(calls[c].id, calls[c].document)
           inserted == insert_one(collection, base)
       IN  /\ collection' = inserted.collection
           /\ calls' = IF inserted.status = "ok"
                       THEN [calls EXCEPT ![c].existing_document = base,
                                          ![c].pc = "update_one"]
                       ELSE [calls EXCEPT ![c].status = inserted.status,
                                          ![c].pc = "done"]
    /\ UNCHANGED <<files, now, nextGen, proc, last>>

\* the fields of the artefact set one by one, the feedback list not among
\* them
StoreUpdateOne_FieldByField(c) ==
    /\ calls[c].pc = "update_one"
    /\ calls[c].op = "store_service_output"
    /\ collection' =
          IF writes_artefact(calls[c].existing_document, calls[c].artefact,
                             calls[c].overwrite_existing)
          THEN update_one_set_KeepFeedback(collection, calls[c].id,
                                           calls[c].artefact,
                                           calls[c].data).collection
          ELSE collection
    /\ calls' = [calls EXCEPT ![c].status = "ok", ![c].pc = "done"]
    /\ UNCHANGED <<files, now, nextGen, proc, last>>

\* lines 182-185: the artefact is set, or left, and the call returns
StoreUpdateOne(c) ==
    /\ calls[c].pc = "update_one"
    /\ calls[c].op = "store_service_output"
    /\ collection' =
          IF writes_artefact(calls[c].existing_document, calls[c].artefact,
                             calls[c].overwrite_existing)
          THEN update_one_set(collection, calls[c].id, calls[c].artefact,
                              calls[c].data).collection
          ELSE collection
    /\ calls' = [calls EXCEPT ![c].status = "ok", ![c].pc = "done"]
    /\ UNCHANGED <<files, now, nextGen, proc, last>>

\* store_service_output_feedback up to line 215: the form is made a
\* dictionary and _set_creation_date reads the clock
BeginFeedback(c, _id, service_type, form, t) ==
    /\ CanBegin(c)
    /\ t >= now
    /\ now' = t
    /\ calls' = [calls EXCEPT ![c] =
                   [op |-> "store_service_output_feedback", pc |-> "update_one",
                    id |-> _id, service_type |-> service_type,
                    feedback_as_dict |-> _set_creation_date(form, t),
                    status |-> "running",
                    found_at_begin |-> find_one(collection, _id)]]
    /\ last' = [last EXCEPT !.n = @ + 1]
    /\ UNCHANGED <<collection, files, nextGen, proc>>

\* the list replaced by the one entry: what a caller writes back that read
\* the list before the other entries were there
FeedbackUpdateOne_WriteBack(c) ==
    /\ calls[c].pc = "update_one"
    /\ calls[c].op = "store_service_output_feedback"
    /\ LET d == find_one(collection, calls[c].id)
           k == calls[c].service_type
           mine == [d[k] EXCEPT !["feedback"] =
                       Append(calls[c].found_at_begin[k]["feedback"],
                              calls[c].feedback_as_dict)]
       IN  /\ d # None /\ calls[c].found_at_begin # None
           /\ k \in DOMAIN d /\ k \in DOMAIN calls[c].found_at_begin
           /\ collection' = update_one_set(collection, calls[c].id, k, mine).collection
    /\ calls' = [calls EXCEPT ![c].status = "ok", ![c].pc = "done"]
    /\ UNCHANGED <<files, now, nextGen, proc, last>>

\* lines 216-224: the one update_one with $push, and the matched_count test
FeedbackUpdateOne(c) ==
    /\ calls[c].pc = "update_one"
    /\ calls[c].op = "store_service_output_feedback"
    /\ LET insertion_result ==
               update_one_push(collection, calls[c].id, calls[c].service_type,
                               calls[c].feedback_as_dict)
       IN  /\ collection' = insertion_result.collection
           /\ calls' = [calls EXCEPT
                          ![c].status = IF insertion_result.matched_count = 0
                                        THEN "ValueError" ELSE "ok",
                          ![c].pc = "done"]
    /\ UNCHANGED <<files, now, nextGen, proc, last>>

\* the documents and forms of the calls in flight; the calls are entered
\* within one reading of the clock
ConcurrentPayloads == {Hello}

ConcurrentForm(c) ==
    [user |-> ClientUsers[c], feedback |-> PyStr("good"),
     written_feedback |-> None, created_at |-> None]

NextConcurrent ==
    \/ \E c \in 1..MaxInFlight, artefact \in Kinds, text \in Contents,
          document \in ConcurrentPayloads :
           BeginStoreServiceOutput(c, artefact, text, document,
                                   processor_overwrite_existing)
    \/ \E c \in 1..MaxInFlight : StoreFindOne(c)
    \/ \E c \in 1..MaxInFlight : StoreInsertOne(c)
    \/ \E c \in 1..MaxInFlight : StoreUpdateOne(c)
    \/ \E c \in 1..MaxInFlight, document \in ConcurrentPayloads,
          service_type \in Kinds, t \in {now} :
           BeginFeedback(c, hash(DEFAULT_FIRST_N_BYTES, DEFAULT_LAST_N_BYTES,
                                 document),
                         service_type, ConcurrentForm(c), t)
    \/ \E c \in 1..MaxInFlight : FeedbackUpdateOne(c)

SpecConcurrent == Init /\ [][NextConcurrent]_vars

\* the collection as an earlier life of the application has left it: one
\* record, of b"hello world", with a summarization that has one feedback
\* entry
StoredCollection ==
    LET _id == hash(DEFAULT_FIRST_N_BYTES, DEFAULT_LAST_N_BYTES, Hello)
        data == artefact_data("summarization", None,
                              [id |-> 1, content |-> "text-a"])
        stored == store_service_output({}, _id, "summarization", data, Hello,
                                       processor_overwrite_existing)
        form == [user |-> "dan", feedback |-> PyStr("good"),
                 written_feedback |-> None, created_at |-> None]
    IN  store_service_output_feedback(stored.collection, _id, "summarization",
                                      form, 1).collection

\* the application starts on an empty collection or on the one it left
InitRestarted ==
    /\ collection \in {{}, StoredCollection}
    /\ files = <<>>
    /\ now = 1
    /\ nextGen = 2
    /\ proc = Idle
    /\ last = [n |-> 0, op |-> "none"]
    /\ calls = [c \in 1..MaxInFlight |-> Idle]

SpecRestarted == InitRestarted /\ [][NextConcurrent]_vars

(***************************************************************************)
(* FileHasher on its own: any windows, any short payload                   *)
(***************************************************************************)
\* bytes(seq): the byte string of the byte values of seq
RECURSIVE FromBytes(_)
FromBytes(seq) ==
    IF seq = <<>> THEN <<>>
    ELSE Concat(<<Run(Head(seq), 1)>>, FromBytes(Tail(seq)))

\* the payloads hashed: all of at most MaxLen bytes over two byte values,
\* and b"hello world"
ByteStrings ==
    {FromBytes(seq) : seq \in UNION {[1..n -> {1, 2}] : n \in 0..MaxLen}}
      \cup {Hello}

\* the byte strings the payloads are made of: the payloads and the parts
\* of b"hello world"
Pieces == ByteStrings \cup {<<Run(1, n)>> : n \in 1..len(Hello)}

\* the windows a FileHasher is constructed with
Windows == (0..MaxWindow) \cup {DEFAULT_FIRST_N_BYTES, DEFAULT_LAST_N_BYTES}

\* FileHasher(first_n_bytes, last_n_bytes).hash(file_bytes)
Hash(first_n_bytes, last_n_bytes, file_bytes) ==
    /\ proc = Idle
    /\ last.n < MaxCalls
    /\ last' = [n |-> last.n + 1, op |-> "hash",
                first_n_bytes |-> first_n_bytes,
                last_n_bytes |-> last_n_bytes,
                file_bytes |-> file_bytes,
                value |-> hash(first_n_bytes, last_n_bytes, file_bytes)]
    /\ UNCHANGED <<collection, files, now, nextGen, proc, calls>>

NextHasher ==
    \E first_n_bytes \in Windows, last_n_bytes \in Windows,
       file_bytes \in ByteStrings :
        Hash(first_n_bytes, last_n_bytes, file_bytes)

SpecHasher == Init /\ [][NextHasher]_vars

(***************************************************************************)
(* The file of a run written to while the run is in progress               *)
(***************************************************************************)
\* the temporary file of the run (NamedTemporaryFile(delete=False), left on
\* disk under its name) is given other bytes by a writer outside the run
FileChanges(contents) ==
    /\ proc.pc \in {"load", "service"}
    /\ files[proc.file_path] # contents
    /\ files' = [files EXCEPT ![proc.file_path] = contents]
    /\ UNCHANGED <<calls, collection, now, nextGen, proc, last>>

NextFile ==
    \/ \E contents \in Payloads, services \in ServiceLists :
           InvokeServiceSet(contents, services)
    \/ ExecuteLoad
    \/ \E text \in Contents : ExecuteServiceOnContent(text)
    \/ ExecuteReturn
    \/ \E contents \in Payloads : FileChanges(contents)

SpecFile == Init /\ [][NextFile]_vars

(***************************************************************************)
(* Store calls whose artefact is named as a field of the record itself     *)
(***************************************************************************)
\* the artefact names of the calls: `artefact` is any str, the service_type
\* of the service; here a service type and the name of the bytes field
ReservedKinds == {"summarization", RAW}

NextReserved ==
    \/ \E artefact \in ReservedKinds, text \in Contents,
          document \in Payloads, overwrite_existing \in BOOLEAN :
           StoreServiceOutput(artefact, text, document, overwrite_existing)
    \/ \E _id \in Ids, exclude_byte_fields \in BOOLEAN :
           GetDocumentById(_id, exclude_byte_fields)

SpecReserved == Init /\ [][NextReserved]_vars

\* the service lists a caller passes to DocumentProcessor: none, or a list
ServiceArguments == {None} \cup {PyList(services) : services \in ServiceLists}

\* the processor alone: built by the route or constructed directly, its
\* run step by step, and the failures of the loader and of a service
NextProcessor ==
    \/ \E contents \in Payloads, services \in ServiceLists :
           InvokeServiceSet(contents, services)
    \/ \E contents \in Payloads, services \in ServiceArguments :
           ConstructProcessor(contents, services)
    \/ ExecuteLoad
    \/ ExecuteLoadFails
    \/ \E text \in Contents : ExecuteServiceOnContent(text)
    \/ ExecuteServiceFails
    \/ ExecuteReturn

SpecProcessor == Init /\ [][NextProcessor]_vars

(***************************************************************************)
(* Properties                                                              *)
(***************************************************************************)
\* the call `op` has just finished: the collection is as it left it
Finished(op) == proc = Idle /\ last.op = op

\* the artefact kinds of a document
ArtefactsOf(d) == DOMAIN d \ {"_id", RAW}

\* C1: the store never holds two records with the same id; a
\* store_service_output call for an id that already has a record succeeds,
\* adds no record and extends the record that was there (its fields stay,
\* the artefact is in it, every other record is untouched); a pipeline run
\* ends with exactly one record for its id.
C1_OneRecordPerIdentity ==
    /\ \A d1, d2 \in collection : d1["_id"] = d2["_id"] => d1 = d2
    /\ (Finished("store_service_output") /\ DocsOf(last.before, last.id) # {})
         => /\ last.status = "ok"
            /\ Cardinality(collection) = Cardinality(last.before)
            /\ LET old == find_one(last.before, last.id)
                   new == find_one(collection, last.id)
               IN  /\ DOMAIN old \subseteq DOMAIN new
                   /\ last.artefact \in DOMAIN new
                   /\ collection \ {new} = last.before \ {old}
    /\ Finished("execute_services")
         => /\ last.status = "ok"
            /\ Cardinality(DocsOf(collection, last.id)) = 1

\* a store call on an id that had a record, with another record around
C1_Witness ==
    /\ Finished("store_service_output")
    /\ DocsOf(last.before, last.id) # {}
    /\ Cardinality(collection) = 2

\* C2: when the record holds artefacts of kinds A and B, a run of a
\* pipeline configured with the one service B leaves the artefact at A as it
\* was (generated id, content, metadata, feedback) and puts the artefact
\* generated in this run at B.
C2_PartialRunPreservation ==
    (/\ Finished("execute_services")
     /\ Len(last.services) = 1
     /\ DocsOf(last.before, last.id) # {})
      => LET B == last.services[1]
             old == find_one(last.before, last.id)
             new == find_one(collection, last.id)
         IN  B \in ArtefactsOf(old)
              => /\ \A A \in ArtefactsOf(old) \ {B} :
                        /\ A \in DOMAIN new
                        /\ new[A] = old[A]
                        /\ A \in DOMAIN last.value /\ last.value[A] = old[A]
                 /\ Len(last.stored) = 1
                 /\ new[B] = last.stored[1].data
                 /\ new[B] # old[B]
                 /\ \A k \in ArtefactsOf(old) :
                        "_id" \in DOMAIN old[k] => new[B]["_id"] # old[k]["_id"]

\* a run of the one service B on a record that held A, with feedback, and B
C2_Witness ==
    /\ Finished("execute_services")
    /\ Len(last.services) = 1
    /\ DocsOf(last.before, last.id) # {}
    /\ LET old == find_one(last.before, last.id)
       IN  /\ last.services[1] \in ArtefactsOf(old)
           /\ \E A \in ArtefactsOf(old) \ {last.services[1]} :
                  /\ "_id" \in DOMAIN old[A]
                  /\ old[A]["feedback"] # <<>>

\* C3: a second run of a pipeline over bytes whose record already holds the
\* artefacts of all its services leaves one record for the identity and no
\* new record; every configured kind holds the artefact generated in the
\* second run, every other field of the record is unchanged.
C3_IdempotentRerun ==
    (/\ Finished("execute_services")
     /\ DocsOf(last.before, last.id) # {}
     /\ Range(last.services) \subseteq ArtefactsOf(find_one(last.before, last.id)))
      => LET old == find_one(last.before, last.id)
             new == find_one(collection, last.id)
         IN  /\ Cardinality(DocsOf(collection, last.id)) = 1
             /\ Cardinality(collection) = Cardinality(last.before)
             /\ DOMAIN new = DOMAIN old
             /\ Len(last.stored) = Len(last.services)
             /\ \A i \in DOMAIN last.services :
                    /\ last.stored[i].artefact = last.services[i]
                    /\ new[last.services[i]] = last.stored[i].data
                    /\ new[last.services[i]] # old[last.services[i]]
             /\ \A f \in DOMAIN old \ Range(last.services) : new[f] = old[f]

\* the second of two runs of the two-service pipeline over the same upload
\* bytes: the artefacts it found were generated by a run over those bytes
C3_Witness ==
    /\ Finished("execute_services")
    /\ Len(last.services) = 2
    /\ DocsOf(last.before, last.id) # {}
    /\ LET old == find_one(last.before, last.id)
       IN  /\ Range(last.services) = ArtefactsOf(old)
           /\ old[RAW] = Binary(last.document)
           /\ \A k \in Range(last.services) :
                  /\ "metadata" \in DOMAIN old[k]
                  /\ old[k]["metadata"].input_file # None

\* C4: store_service_output with overwrite_existing=False for a kind the
\* record already holds leaves the whole collection as it was and returns
\* the id.
C4_OverwriteFalseSkip ==
    (/\ Finished("store_service_output")
     /\ ~last.overwrite_existing
     /\ DocsOf(last.before, last.id) # {}
     /\ last.artefact \in ArtefactsOf(find_one(last.before, last.id)))
      => /\ collection = last.before
         /\ last.status = "ok"
         /\ last.value = last.id

\* such a call, passing bytes that are not the embedded ones
C4_Witness ==
    /\ Finished("store_service_output")
    /\ ~last.overwrite_existing
    /\ DocsOf(last.before, last.id) # {}
    /\ LET old == find_one(last.before, last.id)
       IN  /\ last.artefact \in ArtefactsOf(old)
           /\ old[RAW] # document_to_store(last.document)
           /\ old[last.artefact] # last.data

\* C5: after store_service_output with overwrite_existing=True for a kind
\* the record already holds, the artefact at that kind is the one passed and
\* its feedback list is empty; the same holds of every artefact a pipeline
\* run has stored.
C5_OverwriteResetsFeedback ==
    /\ (/\ Finished("store_service_output")
        /\ last.overwrite_existing
        /\ DocsOf(last.before, last.id) # {}
        /\ last.artefact \in ArtefactsOf(find_one(last.before, last.id)))
         => LET new == find_one(collection, last.id)
            IN  /\ new[last.artefact] = last.data
                /\ new[last.artefact]["feedback"] = <<>>
    /\ Finished("execute_services")
         => \A i \in DOMAIN last.stored :
                LET new == find_one(collection, last.stored[i].id)
                IN  /\ new[last.stored[i].artefact] = last.stored[i].data
                    /\ new[last.stored[i].artefact]["feedback"] = <<>>

\* an overwrite, by the store call or by a run, of an artefact with feedback
C5_Witness ==
    /\ \/ Finished("store_service_output") /\ last.overwrite_existing
       \/ Finished("execute_services")
    /\ DocsOf(last.before, last.id) # {}
    /\ LET old == find_one(last.before, last.id)
           k == IF last.op = "execute_services" THEN last.services[1]
                ELSE last.artefact
       IN  /\ k \in ArtefactsOf(old)
           /\ "_id" \in DOMAIN old[k]
           /\ old[k]["feedback"] # <<>>

\* C6: once a record exists, no step changes its embedded-bytes field,
\* whatever bytes a later store_service_output call passes: the field holds
\* what the call that created the record put there.
C6_RawBytesWrittenAtCreationOnly ==
    [][\A d \in collection : \A e \in collection' :
           e["_id"] = d["_id"]
             => /\ RAW \in DOMAIN e <=> RAW \in DOMAIN d
                /\ RAW \in DOMAIN d => e[RAW] = d[RAW]]_vars

\* an overwriting store call on an existing record that passed other bytes
\* than the record embeds
C6_Witness ==
    /\ Finished("store_service_output")
    /\ last.overwrite_existing
    /\ DocsOf(last.before, last.id) # {}
    /\ find_one(last.before, last.id)[RAW] # document_to_store(last.document)

C8_FeedbackAppendedInOrder ==
    (/\ Finished("store_service_output_feedback")
     /\ DocsOf(last.before, last.id) # {}
     /\ last.service_type \in ArtefactsOf(find_one(last.before, last.id))
     /\ "feedback" \in DOMAIN find_one(last.before, last.id)[last.service_type])
      => LET was == find_one(last.before, last.id)[last.service_type]["feedback"]
             is  == find_one(collection, last.id)[last.service_type]["feedback"]
         IN  /\ last.status = "ok"
             /\ Len(is) = Len(was) + 1
             /\ SubSeq(is, 1, Len(was)) = was
             /\ is[Len(is)].user = last.form.user
             /\ is[Len(is)].feedback = last.form.feedback
             /\ is[Len(is)].written_feedback = last.form.written_feedback

\* the second of two feedback calls on a stored artefact, the two entries
\* being different
C8_Witness ==
    /\ Finished("store_service_output_feedback")
    /\ last.status = "ok"
    /\ LET a == find_one(collection, last.id)[last.service_type]
       IN  /\ "_id" \in DOMAIN a
           /\ Len(a["feedback"]) = 2
           /\ a["feedback"][1] # a["feedback"][2]

\* C9: a feedback call for an id without record fails with the ValueError of
\* store_service_output_feedback and leaves the collection as it was.
C9_FeedbackTargetNotFound ==
    (Finished("store_service_output_feedback") /\ DocsOf(last.before, last.id) = {})
      => /\ last.status = "ValueError"
         /\ last.value = None
         /\ collection = last.before

\* a feedback call for an id without record while another id has one
C9_Witness ==
    /\ Finished("store_service_output_feedback")
    /\ DocsOf(last.before, last.id) = {}
    /\ last.before # {}

\* C10: a feedback entry submitted with a created_at of the caller is
\* stored with that created_at.
C10_CallerCreatedAtKept ==
    (/\ Finished("store_service_output_feedback")
     /\ last.status = "ok"
     /\ last.form.created_at # None)
      => LET is == find_one(collection, last.id)[last.service_type]["feedback"]
         IN  is[Len(is)].created_at = last.form.created_at

\* the document without its embedded-bytes field
WithoutRaw(d) == [f \in DOMAIN d \ {RAW} |-> d[f]]

\* C11: get_document_by_id with exclude_byte_fields=True on an id that has
\* a record returns that record without the embedded-bytes field and with
\* every other field (the _id and each artefact) as stored; it succeeds the
\* same way on a record that has no such field; it leaves the collection as
\* it was, so a read with exclude_byte_fields=False still returns the
\* embedded bytes.
C11_RetrieveStripsRawBytes ==
    (/\ Finished("get_document_by_id")
     /\ last.exclude_byte_fields
     /\ DocsOf(last.before, last.id) # {})
      => LET stored == find_one(last.before, last.id)
             bare   == (last.before \ {stored}) \cup {WithoutRaw(stored)}
         IN  /\ last.status = "ok"
             /\ RAW \notin DOMAIN last.value
             /\ DOMAIN last.value = DOMAIN stored \ {RAW}
             /\ \A f \in DOMAIN last.value : last.value[f] = stored[f]
             /\ get_document_by_id(bare, last.id, TRUE)
                  = [status |-> "ok", value |-> WithoutRaw(stored)]
             /\ collection = last.before
             /\ get_document_by_id(collection, last.id, FALSE)
                  = [status |-> "ok", value |-> stored]

\* a read without the bytes of a record that embeds them and has an
\* artefact with feedback on it
C11_Witness ==
    /\ Finished("get_document_by_id")
    /\ last.exclude_byte_fields
    /\ last.status = "ok"
    /\ \E d \in DocsOf(collection, last.id) :
          /\ d[RAW] = Binary(Hello)
          /\ \E k \in ArtefactsOf(d) :
                "content" \in DOMAIN d[k] /\ Len(d[k]["feedback"]) = 1
          /\ last.value = WithoutRaw(d)

\* C12: get_document_by_id on an id that has no record returns the
\* not-found outcome (None, no error) with exclude_byte_fields True as with
\* False, and leaves the collection as it was.
C12_MissingIdIsNotFound ==
    (/\ Finished("get_document_by_id")
     /\ DocsOf(last.before, last.id) = {})
      => /\ last.status = "ok"
         /\ last.value = None
         /\ collection = last.before

\* C13: no DocumentProcessor exists with an empty list of services: a
\* construction with no service ends in an error, with no read of the file
\* and the collection as it was, so execute_services never runs over zero
\* services.
C13_NoProcessorWithoutServices ==
    /\ proc # Idle => proc.services # <<>>
    /\ Finished("build")
         => /\ last.status = "ValueError"
            /\ last.reads = 0
            /\ collection = last.before
    /\ Finished("execute_services") => last.services # <<>>

\* C14: a successful execute_services returns the record now stored for the
\* identity of the document (all of it but the embedded bytes): it holds,
\* for every service of this run, the artefact generated in this run, and
\* every artefact the record held before the run for a kind that is not in
\* this run's list, as it was.
C14_ReturnsFullRecord ==
    (Finished("execute_services") /\ last.status = "ok")
      => LET new == find_one(collection, last.id)
         IN  /\ new # None
             /\ last.value = WithoutRaw(new)
             /\ last.value["_id"] = last.id
             /\ \A i \in DOMAIN last.services :
                    /\ last.services[i] \in DOMAIN last.value
                    /\ last.value[last.services[i]] = last.stored[i].data
             /\ \A old \in DocsOf(last.before, last.id) :
                    \A A \in ArtefactsOf(old) \ Range(last.services) :
                        A \in DOMAIN last.value /\ last.value[A] = old[A]

\* a run of one service returns, next to its own artefact, the artefact an
\* earlier run of another service stored for the same upload bytes
C14_Witness ==
    /\ Finished("execute_services")
    /\ last.status = "ok"
    /\ Len(last.services) = 1
    /\ \E old \in DocsOf(last.before, last.id) :
          \E A \in ArtefactsOf(old) \ Range(last.services) :
              /\ "metadata" \in DOMAIN old[A]
              /\ old[A]["metadata"].input_file # None
              /\ last.value[A] = old[A]
              /\ last.value[last.services[1]]["_id"] = nextGen - 1

\* C15: when the run of the k-th service of execute_services fails, the
\* error is what the call ends with; k services were invoked and no more,
\* the store was called for the k-1 services before it and for no other;
\* the artefacts those k-1 calls stored are in the record, and everything
\* else in the collection is as it was before the run.
C15_ServiceFailureStopsRun ==
    (Finished("execute_services") /\ last.status = "GenerationError")
      => LET k == last.failed
             done == {last.services[j] : j \in 1..(k - 1)}
         IN  /\ last.value = None
             /\ last.invoked = k
             /\ Len(last.stored) = k - 1
             /\ \A j \in 1..(k - 1) :
                    /\ last.stored[j].artefact = last.services[j]
                    /\ \E d \in DocsOf(collection, last.id) :
                          d[last.services[j]] = last.stored[j].data
             /\ k = 1 => collection = last.before
             /\ \A d \in collection : d["_id"] # last.id => d \in last.before
             /\ \A new \in DocsOf(collection, last.id) :
                  \A old \in DocsOf(last.before, last.id) :
                    /\ \A f \in DOMAIN old \ done : f \in DOMAIN new /\ new[f] = old[f]
                    /\ DOMAIN new = DOMAIN old \cup done
             /\ \A new \in DocsOf(collection, last.id) :
                    DocsOf(last.before, last.id) = {}
                      => DOMAIN new = {"_id", RAW} \cup done

\* the second of two services fails: the artefact of the first is stored
C15_Witness ==
    /\ Finished("execute_services")
    /\ last.status = "GenerationError"
    /\ last.failed = 2
    /\ \E d \in DocsOf(collection, last.id) :
          /\ d[last.services[1]]["content"] = "text-a"
          /\ last.services[2] \notin DOMAIN d

\* C16: when the loader fails to load the content, execute_services ends
\* with that error and the collection is as it was before the run: no
\* document inserted, no artefact written, no service invoked.
C16_LoaderFailureWritesNothing ==
    (Finished("execute_services") /\ last.status = "LoaderError")
      => /\ last.value = None
         /\ collection = last.before
         /\ last.stored = <<>>
         /\ last.invoked = 0

\* the loader fails on an upload whose identity has no record, after a
\* run that left a record for other bytes
C16_Witness ==
    /\ Finished("execute_services")
    /\ last.status = "LoaderError"
    /\ DocsOf(collection, last.id) = {}
    /\ collection # {}

\* the call in flight at c is a finished call of `op`
Done(c, op) == calls[c].pc = "done" /\ calls[c].op = op

\* C17: two store_service_output calls for different artefacts of one
\* identity, both entered while the identity has no record, however their
\* operations on the collection interleave: one record is created for the
\* identity, both calls succeed and the record holds both artefacts.
C17_ConcurrentFirstStores ==
    \A c1, c2 \in 1..MaxInFlight :
        (/\ Done(c1, "store_service_output")
         /\ Done(c2, "store_service_output")
         /\ calls[c1].id = calls[c2].id
         /\ calls[c1].artefact # calls[c2].artefact
         /\ calls[c1].found_at_begin = None
         /\ calls[c2].found_at_begin = None)
          => /\ Cardinality(DocsOf(collection, calls[c1].id)) = 1
             /\ calls[c1].status = "ok"
             /\ calls[c2].status = "ok"
             /\ \A d \in DocsOf(collection, calls[c1].id) :
                    {calls[c1].artefact, calls[c2].artefact} \subseteq DOMAIN d

\* the number of times e is in the list
Count(seq, e) == Cardinality({i \in DOMAIN seq : seq[i] = e})

\* the artefact of generation g is stored at (_id, kind) of the collection
HoldsGeneration(coll, _id, kind, g) ==
    \E d \in DocsOf(coll, _id) :
        kind \in DOMAIN d /\ "_id" \in DOMAIN d[kind] /\ d[kind]["_id"] = g

\* C18: store_service_output_feedback calls on one stored artefact, in
\* flight together, with the artefact not written again meanwhile: however
\* their operations interleave, every call succeeds and its entry is in the
\* feedback list once more than when the call was entered, so the list
\* ends with the entries of all the calls, none lost and none doubled.
C18_ConcurrentFeedbackAllKept ==
    \A c \in 1..MaxInFlight :
        (/\ Done(c, "store_service_output_feedback")
         /\ calls[c].found_at_begin # None
         /\ calls[c].service_type \in DOMAIN calls[c].found_at_begin
         /\ "_id" \in DOMAIN calls[c].found_at_begin[calls[c].service_type]
         /\ HoldsGeneration(collection, calls[c].id, calls[c].service_type,
                            calls[c].found_at_begin[calls[c].service_type]["_id"]))
          => LET kind == calls[c].service_type
                 was  == calls[c].found_at_begin[kind]["feedback"]
                 is   == find_one(collection, calls[c].id)[kind]["feedback"]
             IN  /\ calls[c].status = "ok"
                 /\ Count(is, calls[c].feedback_as_dict)
                      = Count(was, calls[c].feedback_as_dict) + 1
                 /\ Len(is) >= Len(was) + 1
                 /\ \A j \in DOMAIN was : is[j] = was[j]

\* two feedback calls on one artefact, each entered before the other's
\* entry was in the list, both finished: the list holds the two entries
C18_Witness ==
    \E c1, c2 \in 1..MaxInFlight :
        /\ c1 # c2
        /\ Done(c1, "store_service_output_feedback")
        /\ Done(c2, "store_service_output_feedback")
        /\ calls[c1].id = calls[c2].id
        /\ calls[c1].service_type = calls[c2].service_type
        /\ calls[c1].found_at_begin # None
        /\ calls[c1].found_at_begin = calls[c2].found_at_begin
        /\ calls[c1].service_type \in DOMAIN calls[c1].found_at_begin
        /\ calls[c1].found_at_begin[calls[c1].service_type]["feedback"] = <<>>
        /\ LET is == find_one(collection, calls[c1].id)[calls[c1].service_type]
           IN  /\ "content" \in DOMAIN is
               /\ Len(is["feedback"]) = 2
               /\ Count(is["feedback"], calls[c1].feedback_as_dict) = 1
               /\ Count(is["feedback"], calls[c2].feedback_as_dict) = 1

Min(a, b) == IF a <= b THEN a ELSE b

\* C19 as stated: whatever the windows, a payload shorter than the last
\* window is hashed as the payload followed by the payload.
C19_ShortPayloadHashedTwice ==
    (Finished("hash") /\ len(last.file_bytes) < last.last_n_bytes)
      => last.value = sha256_hexdigest(Concat(last.file_bytes, last.file_bytes))

\* C19, amended: a payload shorter than the last window is hashed as its
\* first min(F, len) bytes followed by the whole payload; that is the
\* payload followed by the payload when it is no longer than the first
\* window either, as b"hello world" is with the windows of 512.
C19_ShortPayloadWindows ==
    (Finished("hash") /\ len(last.file_bytes) < last.last_n_bytes)
      => LET b == last.file_bytes
         IN  /\ \E head \in Pieces, rest \in Pieces :
                    /\ Concat(head, rest) = b
                    /\ len(head) = Min(last.first_n_bytes, len(b))
                    /\ last.value = sha256_hexdigest(Concat(head, b))
             /\ len(b) <= last.first_n_bytes
                  => last.value = sha256_hexdigest(Concat(b, b))
             /\ (/\ b = Hello
                 /\ last.first_n_bytes = 512
                 /\ last.last_n_bytes = 512)
                  => last.value = sha256_hexdigest(<<Run(1, 22)>>)

\* a payload longer than the first window and shorter than the last
C19_Witness ==
    /\ Finished("hash")
    /\ last.first_n_bytes = 1
    /\ last.last_n_bytes = 3
    /\ last.file_bytes = FromBytes(<<1, 2>>)
    /\ last.value = sha256_hexdigest(FromBytes(<<1, 1, 2>>))

\* C20: the identity of a document is a function of its bytes alone.  Every
\* artefact a run stored from a file is in the record whose id is the hash
\* of that file's bytes, whatever the path of the file, so runs over the
\* same bytes uploaded under different paths work on one record; the hash
\* taken again at every store call of a run and at its end gives the same
\* id, the hash of the bytes of the upload.
C20_IdentityOfBytesOnly ==
    /\ \A d \in collection : \A k \in ArtefactsOf(d) :
          ("metadata" \in DOMAIN d[k] /\ d[k]["metadata"].input_file # None)
            => d["_id"] = hash(DEFAULT_FIRST_N_BYTES, DEFAULT_LAST_N_BYTES,
                               files[d[k]["metadata"].input_file])
    /\ \A p1, p2 \in DOMAIN files :
          files[p1] = files[p2] => file_hash(files, p1) = file_hash(files, p2)
    /\ Finished("execute_services")
         => /\ last.id = hash(DEFAULT_FIRST_N_BYTES, DEFAULT_LAST_N_BYTES,
                              last.document)
            /\ \A j \in DOMAIN last.stored : last.stored[j].id = last.id
            /\ \A p \in DOMAIN files :
                  files[p] = last.document => file_hash(files, p) = last.id

\* two runs over the same bytes, uploaded to two temporary files, have
\* left their artefacts in one record
C20_Witness ==
    /\ Finished("execute_services")
    /\ last.status = "ok"
    /\ \E d \in DocsOf(collection, last.id) :
          \E k1, k2 \in ArtefactsOf(d) :
              /\ "metadata" \in DOMAIN d[k1] /\ "metadata" \in DOMAIN d[k2]
              /\ d[k1]["metadata"].input_file # None
              /\ d[k2]["metadata"].input_file # None
              /\ d[k1]["metadata"].input_file # d[k2]["metadata"].input_file
              /\ files[d[k1]["metadata"].input_file]
                   = files[d[k2]["metadata"].input_file]

\* C21: in one execute_services call over n services the loader loads the
\* content once, the file is read once and its hash is taken once (the
\* construction of the processor has read and hashed it once before).
C21_LoadedReadHashedOnce ==
    (Finished("execute_services") /\ last.status = "ok")
      => /\ last.loads = 1
         /\ last.reads - 1 = 1
         /\ last.hashes - 1 = 1

\* C22: in one execute_services call a service is invoked only when the
\* store call of every service invoked before it has completed; it is the
\* next service of the configured list, one service per step; its store
\* call passes overwrite_existing=True, so the record holds the artefact
\* of this run when the step ends.
C22_OneAtATimeInOrder ==
    [][(/\ proc.pc = "service"
        /\ proc'.pc = "service"
        /\ proc'.invoked # proc.invoked)
         => /\ Len(proc.stored) = proc.invoked
            /\ proc'.invoked = proc.invoked + 1
            /\ Len(proc'.stored) = proc'.invoked
            /\ \A j \in DOMAIN proc.stored : proc'.stored[j] = proc.stored[j]
            /\ LET call == proc'.stored[proc'.invoked]
               IN  /\ call.artefact = proc.services[proc'.invoked]
                   /\ call.overwrite_existing = TRUE
                   /\ \E d \in DocsOf(collection', call.id) :
                         d[call.artefact] = call.data]_vars

\* the first of two services has replaced the artefact an earlier run had
\* stored, and the second is still to run
C22_Witness ==
    /\ proc.pc = "service"
    /\ Len(proc.services) = 2
    /\ proc.i = 2
    /\ proc.stored[1].artefact = proc.services[1]
    /\ proc.services[1] # proc.services[2]
    /\ \E old \in DocsOf(proc.before, proc.stored[1].id) :
          /\ proc.services[1] \in DOMAIN old
          /\ old[proc.services[1]] # proc.stored[1].data

\* the list a is the beginning of the list b
IsPrefix(a, b) == Len(a) <= Len(b) /\ SubSeq(b, 1, Len(a)) = a

\* the embedded documents a and b are one generation of an artefact: the
\* same generated id, or both without one
SameGeneration(a, b) ==
    IF "_id" \in DOMAIN a
    THEN "_id" \in DOMAIN b /\ a["_id"] = b["_id"]
    ELSE "_id" \notin DOMAIN b

\* C23: feedback is append-only.  In every step of the store, an artefact
\* that has a feedback list still is in its record after the step, and
\* unless the step has written the artefact anew (another generation) its
\* list after the step begins with the list before the step.
C23_FeedbackAppendOnly ==
    [][\A d \in collection : \A k \in ArtefactsOf(d) :
          "feedback" \in DOMAIN d[k]
            => \E e \in DocsOf(collection', d["_id"]) :
                  /\ k \in DOMAIN e
                  /\ "feedback" \in DOMAIN e[k]
                  /\ SameGeneration(d[k], e[k])
                       => IsPrefix(d[k]["feedback"], e[k]["feedback"])]_vars

\* a store call without overwrite on an artefact that has feedback has
\* left the artefact and its list of one entry
C23_Witness ==
    /\ Finished("store_service_output")
    /\ ~last.overwrite_existing
    /\ \E old \in DocsOf(last.before, last.id) :
          /\ last.artefact \in DOMAIN old
          /\ "_id" \in DOMAIN old[last.artefact]
          /\ Len(old[last.artefact]["feedback"]) = 1
          /\ \E d \in DocsOf(collection, last.id) :
                d[last.artefact] = old[last.artefact]

\* the collection with the created_at of every feedback entry left out
StripEntry(e) == [e EXCEPT !.created_at = None]

StripArtefact(a) ==
    IF "feedback" \in DOMAIN a
    THEN [a EXCEPT !["feedback"] = [j \in DOMAIN @ |-> StripEntry(@[j])]]
    ELSE a

StripTimes(coll) ==
    {[f \in DOMAIN d |-> IF f \in ArtefactsOf(d) THEN StripArtefact(d[f])
                         ELSE d[f]] : d \in coll}

\* a form of another user, posted at any instant
OtherForm ==
    [user |-> "bob", feedback |-> PyStr("bad"),
     written_feedback |-> None, created_at |-> None]

\* C24: a feedback call changes nothing but the feedback list at its own
\* (id, kind), and commutes with a feedback call on any other (id, kind):
\* the collection after the two calls is the same, the created_at of the
\* entries aside, whichever of the two came first.
C24_FeedbackAppendsCommute ==
    Finished("store_service_output_feedback")
      => /\ \A d \in collection :
               d["_id"] # last.id => d \in last.before
         /\ \A old \in DocsOf(last.before, last.id) :
               \E new \in DocsOf(collection, last.id) :
                  /\ \A f \in DOMAIN old \ {last.service_type} :
                         f \in DOMAIN new /\ new[f] = old[f]
                  /\ DOMAIN new = DOMAIN old \cup {last.service_type}
                  /\ last.service_type \in DOMAIN old
                       => \A g \in DOMAIN old[last.service_type] \ {"feedback"} :
                             new[last.service_type][g] = old[last.service_type][g]
         /\ \A _id \in Ids, service_type \in Kinds, t1, t2 \in 1..MaxClock :
               (_id # last.id \/ service_type # last.service_type)
                 => LET other_first ==
                            store_service_output_feedback(
                                last.before, _id, service_type, OtherForm, t1)
                        then_this ==
                            store_service_output_feedback(
                                other_first.collection, last.id,
                                last.service_type, last.form, t2)
                        other_last ==
                            store_service_output_feedback(
                                collection, _id, service_type, OtherForm, t2)
                    IN  /\ StripTimes(then_this.collection)
                             = StripTimes(other_last.collection)
                        /\ then_this.status = last.status
                        /\ other_first.status = other_last.status

\* a feedback call on an artefact of a record in which another artefact
\* has feedback too
C24_Witness ==
    /\ Finished("store_service_output_feedback")
    /\ last.status = "ok"
    /\ \E d \in DocsOf(collection, last.id) :
          \E k \in ArtefactsOf(d) \ {last.service_type} :
              /\ d[k]["feedback"] # <<>>
              /\ d[last.service_type]["feedback"] # <<>>

\* C25: store_service_output is idempotent: the call made again with the
\* same _id, artefact, data, document and overwrite_existing, right after
\* it has returned, succeeds and leaves the collection as the first call
\* left it.
C25_StoreIsIdempotent ==
    (Finished("store_service_output") /\ last.status = "ok")
      => store_service_output(collection, last.id, last.artefact, last.data,
                              last.document, last.overwrite_existing)
           = [collection |-> collection, status |-> "ok", value |-> last.id]

\* an overwriting call that has replaced an artefact with feedback on it
C25_Witness ==
    /\ Finished("store_service_output")
    /\ last.status = "ok"
    /\ last.overwrite_existing
    /\ \E old \in DocsOf(last.before, last.id) :
          /\ last.artefact \in DOMAIN old
          /\ old[last.artefact]["feedback"] # <<>>
    /\ \E d \in DocsOf(collection, last.id) : d[last.artefact] = last.data

\* C26: every artefact of every record has a generated id, metadata,
\* content and a feedback list; a feedback call for a kind that has no
\* artefact creates none, so a store call with overwrite_existing=False
\* for a kind of which no artefact was ever stored does store its output.
C26_ArtefactsComplete ==
    /\ \A d \in collection : \A k \in ArtefactsOf(d) :
          {"_id", "metadata", "content", "feedback"} \subseteq DOMAIN d[k]
    /\ (/\ Finished("store_service_output")
        /\ ~last.overwrite_existing
        /\ \A old \in DocsOf(last.before, last.id) :
              last.artefact \in DOMAIN old
                => "content" \notin DOMAIN old[last.artefact])
         => \E d \in DocsOf(collection, last.id) :
               d[last.artefact] = last.data

\* C27: whatever happens to the bytes of the file during a run, every store
\* call of the run and the read that ends it address one _id, and the
\* artefacts of the run are in one record.
C27_RunAddressesOneId ==
    /\ proc.pc = "service"
         => \A j \in DOMAIN proc.stored : proc.stored[j].id = proc.stored[1].id
    /\ Finished("execute_services")
         => /\ \A j \in DOMAIN last.stored : last.stored[j].id = last.id
            /\ last.status = "ok"
            /\ \A j \in DOMAIN last.stored :
                  last.stored[j].artefact \in DOMAIN last.value

\* C28: whatever the name of the artefact, a store_service_output call
\* leaves the _id and the embedded bytes of every record as they were, and
\* a record it creates holds the bytes of the call (or None over the
\* limit) in its bytes field.
C28_ReservedFieldsUntouched ==
    Finished("store_service_output")
      => /\ \A old \in last.before :
               \E new \in DocsOf(collection, old["_id"]) : new[RAW] = old[RAW]
         /\ \A new \in collection \ last.before :
               DocsOf(last.before, new["_id"]) = {}
                 => new[RAW] = document_to_store(last.document)

\* C29: for every payload and all windows F >= 0 and L >= 0, L = 0
\* included, the bytes digested are the first min(F, len) bytes of the
\* payload followed by its last min(L, len) bytes.
C29_DigestOfTwoWindows ==
    Finished("hash")
      => LET b == last.file_bytes
         IN  \E head \in Pieces, tail \in Pieces :
                /\ \E rest \in Pieces : Concat(head, rest) = b
                /\ \E front \in Pieces : Concat(front, tail) = b
                /\ len(head) = Min(last.first_n_bytes, len(b))
                /\ len(tail) = Min(last.last_n_bytes, len(b))
                /\ last.value = sha256_hexdigest(Concat(head, tail))

\* C30: one store_service_output_feedback call and one store_service_output
\* call with overwrite_existing=True, the only two calls, both on one
\* stored artefact, however their operations interleave: both succeed, the
\* artefact is the one of the store call, and its feedback list is empty
\* or holds the entry of the feedback call alone; no entry the list had
\* before is left.
C30_OverwriteAgainstFeedback ==
    \A c1, c2 \in 1..MaxInFlight :
        (/\ last.n = 2
         /\ Done(c1, "store_service_output_feedback")
         /\ Done(c2, "store_service_output")
         /\ calls[c2].overwrite_existing
         /\ calls[c1].id = calls[c2].id
         /\ calls[c1].service_type = calls[c2].artefact
         /\ \A c \in {c1, c2} :
               /\ calls[c].found_at_begin # None
               /\ calls[c2].artefact \in DOMAIN calls[c].found_at_begin
               /\ "content" \in DOMAIN calls[c].found_at_begin[calls[c2].artefact])
          => /\ calls[c1].status = "ok"
             /\ calls[c2].status = "ok"
             /\ \E d \in DocsOf(collection, calls[c2].id) :
                   LET is == d[calls[c2].artefact]
                   IN  /\ is["_id"] = calls[c2].data["_id"]
                       /\ is["content"] = calls[c2].data["content"]
                       /\ is["metadata"] = calls[c2].data["metadata"]
                       /\ is["feedback"] \in {<<>>, <<calls[c1].feedback_as_dict>>}

\* the two calls entered on the artefact with its old entry; the push has
\* come after the overwrite and its entry is the only one
C30_Witness ==
    \E c1, c2 \in 1..MaxInFlight :
        /\ last.n = 2
        /\ Done(c1, "store_service_output_feedback")
        /\ Done(c2, "store_service_output")
        /\ calls[c1].id = calls[c2].id
        /\ calls[c1].service_type = calls[c2].artefact
        /\ calls[c1].found_at_begin # None
        /\ calls[c1].found_at_begin = calls[c2].found_at_begin
        /\ calls[c2].artefact \in DOMAIN calls[c1].found_at_begin
        /\ Len(calls[c1].found_at_begin[calls[c2].artefact]["feedback"]) = 1
        /\ \E d \in DocsOf(collection, calls[c2].id) :
              /\ d[calls[c2].artefact]["_id"] = calls[c2].data["_id"]
              /\ d[calls[c2].artefact]["feedback"] = <<calls[c1].feedback_as_dict>>

====
